---- MODULE Spec2Model ----
(***************************************************************************)
(* A state-machine model of timetable_csp.py: preprocess (timeslot table,  *)
(* overlap map, session list), build_vars_domains and solve_timetable.     *)
(* Tables are modelled after safe_str / int_safe have parsed their cells:  *)
(* a missing or blank cell is the empty string, a missing number is 0.     *)
(* Python dicts are sequences of records in insertion order (rooms,        *)
(* instructors) or functions (timeslot_info, overlap_map); a LectureVar is *)
(* identified by its position in `variables`, as the code identifies it by *)
(* object identity.                                                        *)
(***************************************************************************)
EXTENDS Integers, Sequences, FiniteSets, TLC

VARIABLES
  ALLOW_FALLBACK,      \* module-level configuration flag
  hashseed,            \* iteration order of Python sets of str in this process
  courses,             \* set of course ids (keys of the courses dict)
  instructors,         \* sequence of [id, role, quals], dict insertion order
  rooms,               \* sequence of [id, type, capacity], dict insertion order
  section_students,    \* function: section id -> student count
  has_duration_col,    \* "Duration" in timeslots_df.columns
  timeslots_df,        \* sequence of timeslot rows
  lecturemap_df,       \* sequence of LectureMapping rows
  timeslots,           \* list of timeslot ids, one per accepted row
  timeslot_info,       \* function: timeslot id -> info record
  overlap_map,         \* function: timeslot id -> set of timeslot ids
  sessions,            \* list of session dicts
  variables,           \* list of LectureVar
  domains,             \* function: index of a LectureVar -> list of candidates
  sorted_vars,         \* list of indices into variables
  assigned,            \* function: index of a LectureVar -> candidate
  failed_assignments,  \* list of indices into variables
  used_room_ts,        \* function: room id -> set of timeslot ids
  used_instr_ts,       \* function: instructor id -> set of timeslot ids
  used_section_ts,     \* function: section id -> set of timeslot ids
  order,               \* history: sessions in the order they became terminal
  first_run,           \* history: outcome and hash seed of the previous run
  runs,                \* number of the current run of the program
  pc,                  \* position in main()
  i                    \* index of the loop the program is in

vars == <<ALLOW_FALLBACK, hashseed, courses, instructors, rooms,
          section_students, has_duration_col, timeslots_df, lecturemap_df,
          timeslots, timeslot_info, overlap_map, sessions, variables, domains,
          sorted_vars, assigned, failed_assignments, used_room_ts,
          used_instr_ts, used_section_ts, order, first_run, runs, pc, i>>

inputs == <<ALLOW_FALLBACK, courses, instructors, rooms, section_students,
            has_duration_col, timeslots_df, lecturemap_df>>

preprocessed == <<timeslots, timeslot_info, overlap_map, sessions>>

built == <<variables, domains>>

solving == <<sorted_vars, assigned, failed_assignments, used_room_ts,
             used_instr_ts, used_section_ts, order>>

-----------------------------------------------------------------------------
(* Configuration constants                                                 *)

MIN_LECTURE_DURATION == 80

MAX_TUTORIAL_DURATION == 79

\* ROOM_CAPACITY_RELAX, as a percentage (0.0 in the source)
ROOM_CAPACITY_RELAX == 0

\* default capacity of room_capacity_diff for a room id that is not in rooms
DEFAULT_CAPACITY == 9999

-----------------------------------------------------------------------------
(* Bounds of the model                                                     *)

\* rows of the timeslot table in the overlap specification
MaxSlotRows == 2

\* rows of the timeslot table in the solver specifications
MaxSolveSlots == 2

\* rows of LectureMapping in the solver specifications
MaxSessions == 2

\* rows of the timeslot table in the domain specification
MaxDomSlots == 1

\* rooms in the domain specification
MaxDomRooms == 1

-----------------------------------------------------------------------------
(* Strings and small helpers                                               *)

Max(a, b) == IF a >= b THEN a ELSE b

Abs(a) == IF a >= 0 THEN a ELSE -a

Range(s) == {s[k] : k \in DOMAIN s}

SeqsUpTo(S, n) == UNION {[1..k -> S] : k \in 0..n}

\* str.lower() on one character
LowerChar(c) ==
  CASE c = "A" -> "a" [] c = "B" -> "b" [] c = "C" -> "c" [] c = "D" -> "d"
    [] c = "E" -> "e" [] c = "F" -> "f" [] c = "G" -> "g" [] c = "H" -> "h"
    [] c = "I" -> "i" [] c = "J" -> "j" [] c = "K" -> "k" [] c = "L" -> "l"
    [] c = "M" -> "m" [] c = "N" -> "n" [] c = "O" -> "o" [] c = "P" -> "p"
    [] c = "Q" -> "q" [] c = "R" -> "r" [] c = "S" -> "s" [] c = "T" -> "t"
    [] c = "U" -> "u" [] c = "V" -> "v" [] c = "W" -> "w" [] c = "X" -> "x"
    [] c = "Y" -> "y" [] c = "Z" -> "z" [] OTHER -> c

RECURSIVE Lower(_)
\* str.lower()
Lower(s) ==
  IF Len(s) = 0 THEN ""
  ELSE LowerChar(SubSeq(s, 1, 1)) \o Lower(SubSeq(s, 2, Len(s)))

\* Python's `needle in s` on strings
Contains(needle, s) ==
  \E k \in 1..(Len(s) - Len(needle) + 1) :
     SubSeq(s, k, k + Len(needle) - 1) = needle

-----------------------------------------------------------------------------
(* preprocess: timeslots, timeslot_info                                    *)

\* the timeslot_info entry built from row r
SlotInfo(r) ==
  LET start == r.start
      end == r.end
      d0 == IF has_duration_col THEN r.Duration ELSE Max(0, end - start)
      duration == IF d0 = 0 /\ start # 0 /\ end # 0
                  THEN Max(0, end - start) ELSE d0
  IN [day |-> r.day,
      start_min |-> start,
      end_min |-> IF end # 0 THEN end ELSE start + duration,
      duration |-> duration,
      slot_type |-> Lower(r.slot_type)]

\* one iteration of `for _, r in timeslots_df.iterrows()`
ReadTimeslotRow ==
  /\ pc = "timeslots"
  /\ i <= Len(timeslots_df)
  /\ LET r == timeslots_df[i]
     IN IF r.tid = ""
        THEN UNCHANGED <<timeslots, timeslot_info>>
        ELSE /\ timeslots' = Append(timeslots, r.tid)
             /\ timeslot_info' =
                  [x \in (DOMAIN timeslot_info) \cup {r.tid} |->
                     IF x = r.tid THEN SlotInfo(r) ELSE timeslot_info[x]]
  /\ i' = i + 1
  /\ UNCHANGED <<inputs, hashseed, overlap_map, sessions, built, solving,
                 first_run, runs, pc>>

-----------------------------------------------------------------------------
(* preprocess: overlap map                                                 *)

\* the test of the inner loop body for the pair (a, b)
SlotsOverlap(a, b) ==
  LET ai == timeslot_info[a]
      bi == timeslot_info[b]
  IN /\ ai.day # ""
     /\ bi.day # ""
     /\ Lower(ai.day) = Lower(bi.day)
     /\ ai.start_min < bi.end_min
     /\ bi.start_min < ai.end_min

\* timeslots[i + 1:], as the set of its elements
SlotsAfter(k) == {timeslots[j] : j \in (k + 1)..Len(timeslots)}

\* overlap_map = {tid: set() for tid in timeslots}
InitOverlapMap ==
  /\ pc = "timeslots"
  /\ i > Len(timeslots_df)
  /\ overlap_map' = [tid \in Range(timeslots) |-> {}]
  /\ pc' = IF Len(timeslots) = 0 THEN "sessions" ELSE "overlap"
  /\ i' = 1
  /\ UNCHANGED <<inputs, hashseed, timeslots, timeslot_info, sessions, built,
                 solving, first_run, runs>>

\* overlap_map after the inner loop for a = timeslots[k] has run
OverlapAfterOuter(k) ==
  LET a == timeslots[k]
      hits == {b \in SlotsAfter(k) : SlotsOverlap(a, b)}
  IN [t \in DOMAIN overlap_map |->
        overlap_map[t] \cup (IF t = a THEN hits ELSE {})
                       \cup (IF t \in hits THEN {a} ELSE {})]

\* one iteration of `for i, a in enumerate(timeslots)`
OverlapOuter ==
  /\ pc = "overlap"
  /\ i <= Len(timeslots)
  /\ overlap_map' = OverlapAfterOuter(i)
  /\ i' = IF i = Len(timeslots) THEN 1 ELSE i + 1
  /\ pc' = IF i = Len(timeslots) THEN "sessions" ELSE "overlap"
  /\ UNCHANGED <<inputs, hashseed, timeslots, timeslot_info, sessions, built,
                 solving, first_run, runs>>

-----------------------------------------------------------------------------
(* preprocess: LectureMapping -> sessions                                  *)

\* section_students.get(sid, 0)
StudentsOf(sid) ==
  IF sid \in DOMAIN section_students THEN section_students[sid] ELSE 0

\* one iteration of `for _, r in lecturemap_df.iterrows()`; dropna and the
\* `if not sid or not cid or not stype` test both skip a row with a blank cell
ReadLectureRow ==
  /\ pc = "sessions"
  /\ i <= Len(lecturemap_df)
  /\ LET r == lecturemap_df[i]
     IN IF r.section = "" \/ r.course = "" \/ r.session_type = ""
        THEN UNCHANGED sessions
        ELSE sessions' = Append(sessions,
                                [section |-> r.section,
                                 course |-> r.course,
                                 session_type |-> r.session_type,
                                 students |-> StudentsOf(r.section)])
  /\ i' = i + 1
  /\ UNCHANGED <<inputs, hashseed, timeslots, timeslot_info, overlap_map,
                 built, solving, first_run, runs, pc>>

\* preprocess returns; main calls build_vars_domains
EndPreprocess ==
  /\ pc = "sessions"
  /\ i > Len(lecturemap_df)
  /\ pc' = "build"
  /\ i' = 1
  /\ UNCHANGED <<inputs, hashseed, preprocessed, built, solving, first_run,
                 runs>>

-----------------------------------------------------------------------------
(* build_vars_domains                                                      *)

compatible_room_by_session(session_type, room_type) ==
  LET st == Lower(session_type)
      rt == Lower(room_type)
      is_lab_session == Contains("lab", st)
      is_tutorial == Contains("tutorial", st)
      is_lecture == Contains("lecture", st)
      teaching == Contains("classroom", rt) \/ Contains("hall", rt)
                    \/ Contains("theater", rt)
      labroom == Contains("lab", rt) \/ Contains("physics", rt)
  IN IF is_lab_session
     THEN (IF labroom THEN TRUE ELSE IF teaching THEN TRUE ELSE FALSE)
     ELSE IF is_lecture \/ is_tutorial
     THEN (IF teaching THEN TRUE ELSE IF labroom THEN TRUE ELSE FALSE)
     ELSE teaching \/ labroom

\* the slot rule with the short-tutorial ceiling taken from the wrong constant
slottype_matches_ceiling80(slot_type, slot_duration, session_type) ==
  LET st == Lower(session_type)
      sl == Lower(slot_type)
  IN IF Contains("short", st) /\ Contains("tutorial", st)
     THEN (sl # "" /\ Contains("short", sl))
            \/ slot_duration <= MIN_LECTURE_DURATION
     ELSE IF Contains("long", st) /\ Contains("tutorial", st)
     THEN (sl # "" /\ Contains("long", sl))
            \/ slot_duration >= MIN_LECTURE_DURATION
     ELSE TRUE

slottype_matches_session(slot_type, slot_duration, session_type) ==
  LET st == Lower(session_type)
      sl == Lower(slot_type)
  IN IF Contains("short tutorial", st)
          \/ (Contains("short", st) /\ Contains("tutorial", st))
     THEN (IF sl # "" /\ Contains("short", sl) THEN TRUE
           ELSE slot_duration <= MAX_TUTORIAL_DURATION)
     ELSE IF Contains("long tutorial", st)
               \/ (Contains("long", st) /\ Contains("tutorial", st))
     THEN (IF sl # "" /\ Contains("long", sl) THEN TRUE
           ELSE slot_duration >= MIN_LECTURE_DURATION)
     ELSE TRUE

\* Python's round() of n / 100: half to even
RoundHundredths(n) ==
  LET q == n \div 100
      r == n % 100
  IN IF r > 50 THEN q + 1
     ELSE IF r < 50 THEN q
     ELSE IF q % 2 = 0 THEN q ELSE q + 1

\* min_capacity of the room loop
MinCapacity(students) ==
  IF ROOM_CAPACITY_RELAX > 0
  THEN RoundHundredths(students * (100 - ROOM_CAPACITY_RELAX))
  ELSE students

\* instructors.get(instr_id, {}) with the defaults of its two .get calls
InstrRecord(instr_id) ==
  IF \E k \in DOMAIN instructors : instructors[k].id = instr_id
  THEN LET k == CHOOSE k \in DOMAIN instructors : instructors[k].id = instr_id
       IN instructors[k]
  ELSE [id |-> instr_id, role |-> "professor", quals |-> {}]

\* all_instructors = list(instructors.keys())
AllInstructors == [k \in DOMAIN instructors |-> instructors[k].id]

\* the fallback substitution made whatever ALLOW_FALLBACK says
QualifiedInstrsAnyway(cid) ==
  LET IsQual(iid) == cid \in InstrRecord(iid).quals
      qualified == SelectSeq(AllInstructors, IsQual)
  IN IF qualified = <<>> THEN AllInstructors ELSE qualified

\* qualified_instrs, after the fallback substitution
QualifiedInstrs(cid) ==
  LET IsQual(iid) == cid \in InstrRecord(iid).quals
      qualified == SelectSeq(AllInstructors, IsQual)
  IN IF qualified = <<>> /\ ALLOW_FALLBACK THEN AllInstructors ELSE qualified

\* pref_flag of the instructor loop
PrefFlag(stype, instr_id) ==
  LET prefer_assistant == Contains("lab", Lower(stype))
                            \/ Contains("tutorial", Lower(stype))
      instr_role == InstrRecord(instr_id).role
  IN prefer_assistant /\ (Contains("assistant", instr_role)
                            \/ Contains("ta", instr_role)
                            \/ Contains("lab", instr_role))

\* the tuple appended to dom
Candidate(t, r_id, instr_id, cid, stype) ==
  <<t, r_id, instr_id, cid \in InstrRecord(instr_id).quals,
    PrefFlag(stype, instr_id)>>

RECURSIVE ConcatAll(_)
\* the concatenation of a list of lists
ConcatAll(ss) == IF ss = <<>> THEN <<>> ELSE Head(ss) \o ConcatAll(Tail(ss))

\* the candidates the instructor loop appends for slot t and room r_info
InstrLoop(t, r_info, cid, stype) ==
  LET qi == QualifiedInstrs(cid)
  IN [k \in DOMAIN qi |-> Candidate(t, r_info.id, qi[k], cid, stype)]

\* the candidates the room loop appends for slot t
RoomLoop(t, cid, stype, students) ==
  ConcatAll([k \in DOMAIN rooms |->
     IF ~compatible_room_by_session(stype, rooms[k].type) THEN <<>>
     ELSE IF rooms[k].capacity < MinCapacity(students) THEN <<>>
     ELSE InstrLoop(t, rooms[k], cid, stype)])

\* dom of session s: the timeslot loop
BuildDomain(s) ==
  ConcatAll([k \in DOMAIN timeslots |->
     LET t == timeslots[k]
     IN IF t \notin DOMAIN timeslot_info THEN <<>>
        ELSE IF ~slottype_matches_session(timeslot_info[t].slot_type,
                                          timeslot_info[t].duration,
                                          s.session_type) THEN <<>>
        ELSE RoomLoop(t, s.course, s.session_type, s.students)])

\* LectureVar(cid, sid, stype, students)
LectureVar(course, section, session_type, students) ==
  [course |-> course, section |-> section, session_type |-> session_type,
   students |-> students,
   name |-> course \o "_" \o section \o "_" \o session_type]

\* the session is left out by the data-integrity mutant: only the student
\* count is tested
SkipsSessionStudentsOnly(s) == s.students <= 0

\* the two `continue` tests at the head of the session loop
SkipsSession(s) ==
  IF s.students <= 0 THEN TRUE
  ELSE IF s.course \notin courses THEN TRUE
  ELSE FALSE

\* one iteration of `for s in sessions`
BuildSession ==
  /\ pc = "build"
  /\ i <= Len(sessions)
  /\ LET s == sessions[i]
     IN IF SkipsSession(s) THEN UNCHANGED built
        ELSE /\ variables' = Append(variables,
                    LectureVar(s.course, s.section, s.session_type, s.students))
             /\ domains' = domains @@ ((Len(variables) + 1) :> BuildDomain(s))
  /\ i' = i + 1
  /\ UNCHANGED <<inputs, hashseed, preprocessed, solving, first_run, runs, pc>>

-----------------------------------------------------------------------------
(* solve_timetable: the two sorts                                          *)

\* tuple comparison of two sort keys (pairs of integers)
KeyLess(a, b) == a[1] < b[1] \/ (a[1] = b[1] /\ a[2] < b[2])

\* x inserted after the last item whose key is not greater than x's
InsertStable(done, x) ==
  LET n == Cardinality({j \in DOMAIN done : ~KeyLess(x.key, done[j].key)})
  IN SubSeq(done, 1, n) \o <<x>> \o SubSeq(done, n + 1, Len(done))

\* an unstable insertion: in a process whose hash order is "rev", x goes
\* before the items of equal key
InsertHashTies(done, x) ==
  LET n == IF hashseed = "fwd"
           THEN Cardinality({j \in DOMAIN done : ~KeyLess(x.key, done[j].key)})
           ELSE Cardinality({j \in DOMAIN done : KeyLess(done[j].key, x.key)})
  IN SubSeq(done, 1, n) \o <<x>> \o SubSeq(done, n + 1, Len(done))

RECURSIVE SortedHashTies(_)
\* a sort whose order among equal keys depends on the process
SortedHashTies(items) ==
  IF items = <<>> THEN <<>>
  ELSE InsertHashTies(SortedHashTies(SubSeq(items, 1, Len(items) - 1)),
                      items[Len(items)])

RECURSIVE Sorted(_)
\* Python's sorted(items, key=...): ascending by key, stable
Sorted(items) ==
  IF items = <<>> THEN <<>>
  ELSE InsertStable(Sorted(SubSeq(items, 1, Len(items) - 1)),
                    items[Len(items)])

\* domains.get(v, [])
DomainOf(v) == IF v \in DOMAIN domains THEN domains[v] ELSE <<>>

\* a key that sorts small sessions first
VarKeyAscending(v) == <<variables[v].students, Len(DomainOf(v))>>

\* the key of line 365: (-v.students, len(domains.get(v, [])))
VarKey(v) == <<-variables[v].students, Len(DomainOf(v))>>

\* sorted_vars of line 365
SortedVars ==
  LET items == [k \in DOMAIN variables |-> [key |-> VarKey(k), val |-> k]]
      out == Sorted(items)
  IN [k \in DOMAIN out |-> out[k].val]

\* rooms.get(room_id, {}).get("capacity", 9999)
CapacityOf(room_id) ==
  IF \E k \in DOMAIN rooms : rooms[k].id = room_id
  THEN LET k == CHOOSE k \in DOMAIN rooms : rooms[k].id = room_id
       IN rooms[k].capacity
  ELSE DEFAULT_CAPACITY

room_capacity_diff(option, v) ==
  Abs(CapacityOf(option[2]) - variables[v].students)

\* the key of line 378: (not x[4], room_capacity_diff(x)), False < True
OptionKey(option, v) ==
  <<IF option[5] THEN 0 ELSE 1, room_capacity_diff(option, v)>>

\* sorted_domain of line 378
SortedDomain(v) ==
  LET dom == DomainOf(v)
      items == [k \in DOMAIN dom |->
                  [key |-> OptionKey(dom[k], v), val |-> dom[k]]]
      out == Sorted(items)
  IN [k \in DOMAIN out |-> out[k].val]

-----------------------------------------------------------------------------
(* solve_timetable: conflict checks                                        *)

\* position of the first row of timeslot id t
FirstIndex(t) ==
  CHOOSE k \in DOMAIN timeslots :
     timeslots[k] = t /\ \A j \in 1..(k - 1) : timeslots[j] # t

\* whether x comes before y when this process iterates a set holding both
HashBefore(x, y) ==
  IF hashseed = "fwd" THEN FirstIndex(x) < FirstIndex(y)
  ELSE FirstIndex(x) > FirstIndex(y)

RECURSIVE HashOrder(_)
\* the order in which `for used_t in S` visits the set S
HashOrder(S) ==
  IF S = {} THEN <<>>
  ELSE LET x == CHOOSE x \in S : \A y \in S \ {x} : HashBefore(x, y)
       IN <<x>> \o HashOrder(S \ {x})

\* a defaultdict(set) read without inserting
Get(d, k) == IF k \in DOMAIN d THEN d[k] ELSE {}

\* overlap_map.get(used_t, set())
OverlapGet(used_t) == Get(overlap_map, used_t)

\* a conflict check that tests equality only and forgets the overlap map
ScanConflictEqualOnly(visit, t) == \E k \in DOMAIN visit : visit[k] = t

RECURSIVE ScanConflict(_, _)
\* `for used_t in ...: if t == used_t or t in overlap_map.get(...): break`
ScanConflict(visit, t) ==
  IF visit = <<>> THEN FALSE
  ELSE IF t = Head(visit) \/ t \in OverlapGet(Head(visit)) THEN TRUE
  ELSE ScanConflict(Tail(visit), t)

RoomConflict(option) ==
  ScanConflict(HashOrder(Get(used_room_ts, option[2])), option[1])

InstrConflict(option) ==
  ScanConflict(HashOrder(Get(used_instr_ts, option[3])), option[1])

SectionConflict(option, section) ==
  ScanConflict(HashOrder(Get(used_section_ts, section)), option[1])

\* the option passes the three `if conflict: continue` tests
Feasible(option, section) ==
  /\ ~RoomConflict(option)
  /\ ~InstrConflict(option)
  /\ ~SectionConflict(option, section)

\* index in sd of the last option without a conflict, 0 if none
LastFeasible(sd, section) ==
  IF \E k \in DOMAIN sd : Feasible(sd[k], section)
  THEN CHOOSE k \in DOMAIN sd :
          /\ Feasible(sd[k], section)
          /\ \A j \in (k + 1)..Len(sd) : ~Feasible(sd[j], section)
  ELSE 0

\* index in sd of the option the loop of line 381 breaks at, 0 if none
FirstFeasible(sd, section) ==
  IF \E k \in DOMAIN sd : Feasible(sd[k], section)
  THEN CHOOSE k \in DOMAIN sd :
          /\ Feasible(sd[k], section)
          /\ \A j \in 1..(k - 1) : ~Feasible(sd[j], section)
  ELSE 0

\* a defaultdict(set) after its keys ks were read
Touch(d, ks) == [x \in (DOMAIN d) \cup ks |-> Get(d, x)]

\* d[k].add(t)
AddSlot(d, k, t) ==
  [x \in (DOMAIN d) \cup {k} |-> IF x = k THEN Get(d, k) \cup {t} ELSE d[x]]

\* the usage dicts after options sd[1..n] went through the conflict checks
RoomsTouched(sd, n) == Touch(used_room_ts, {sd[k][2] : k \in 1..n})

InstrsTouched(sd, n) ==
  Touch(used_instr_ts, {sd[k][3] : k \in {j \in 1..n : ~RoomConflict(sd[j])}})

SectionsTouched(sd, n, section) ==
  Touch(used_section_ts,
        IF \E k \in 1..n : ~RoomConflict(sd[k]) /\ ~InstrConflict(sd[k])
        THEN {section} ELSE {})

\* an assignment that forgets the earlier ones
CommitForgetting(asg, v, option) == (v :> option)

\* assigned[v] = option
Commit(asg, v, option) == asg @@ (v :> option)

-----------------------------------------------------------------------------
(* main and solve_timetable: control                                       *)

\* main: `if not variables: return`
MainNoVariables ==
  /\ pc = "build"
  /\ i > Len(sessions)
  /\ variables = <<>>
  /\ pc' = "done"
  /\ UNCHANGED <<inputs, hashseed, preprocessed, built, solving, first_run,
                 runs, i>>

\* solve_timetable up to the loop: lines 358-365
BeginSolve ==
  /\ pc = "build"
  /\ i > Len(sessions)
  /\ variables # <<>>
  /\ sorted_vars' = SortedVars
  /\ assigned' = <<>>
  /\ failed_assignments' = <<>>
  /\ used_room_ts' = <<>>
  /\ used_instr_ts' = <<>>
  /\ used_section_ts' = <<>>
  /\ pc' = "solve"
  /\ i' = 1
  /\ UNCHANGED <<inputs, hashseed, preprocessed, built, order, first_run, runs>>

\* the loop of line 367 moves to the next variable, or the function returns
NextVar ==
  /\ i' = i + 1
  /\ pc' = IF i = Len(sorted_vars) THEN "done" ELSE "solve"

\* lines 368-372: the domain is empty
SolveNoDomain ==
  /\ pc = "solve"
  /\ i <= Len(sorted_vars)
  /\ LET v == sorted_vars[i]
     IN /\ DomainOf(v) = <<>>
        /\ failed_assignments' = Append(failed_assignments, v)
        /\ order' = Append(order, v)
  /\ NextVar
  /\ UNCHANGED <<inputs, hashseed, preprocessed, built, sorted_vars, assigned,
                 used_room_ts, used_instr_ts, used_section_ts, first_run, runs>>

\* lines 374-413: the first option without a conflict is assigned
SolveAssign ==
  /\ pc = "solve"
  /\ i <= Len(sorted_vars)
  /\ LET v == sorted_vars[i]
         section == variables[v].section
         sd == SortedDomain(v)
         f == FirstFeasible(sd, section)
     IN /\ DomainOf(v) # <<>>
        /\ f # 0
        /\ assigned' = Commit(assigned, v, sd[f])
        /\ used_room_ts' = AddSlot(RoomsTouched(sd, f), sd[f][2], sd[f][1])
        /\ used_instr_ts' = AddSlot(InstrsTouched(sd, f), sd[f][3], sd[f][1])
        /\ used_section_ts' =
             AddSlot(SectionsTouched(sd, f, section), section, sd[f][1])
        /\ order' = Append(order, v)
  /\ NextVar
  /\ UNCHANGED <<inputs, hashseed, preprocessed, built, sorted_vars,
                 failed_assignments, first_run, runs>>

\* lines 374-417: every option has a conflict
SolveAllClashed ==
  /\ pc = "solve"
  /\ i <= Len(sorted_vars)
  /\ LET v == sorted_vars[i]
         section == variables[v].section
         sd == SortedDomain(v)
     IN /\ DomainOf(v) # <<>>
        /\ FirstFeasible(sd, section) = 0
        /\ failed_assignments' = Append(failed_assignments, v)
        /\ used_room_ts' = RoomsTouched(sd, Len(sd))
        /\ used_instr_ts' = InstrsTouched(sd, Len(sd))
        /\ used_section_ts' = SectionsTouched(sd, Len(sd), section)
        /\ order' = Append(order, v)
  /\ NextVar
  /\ UNCHANGED <<inputs, hashseed, preprocessed, built, sorted_vars, assigned,
                 first_run, runs>>

\* the program is started again on the same tables, in a new process
RunAgain ==
  /\ pc = "done"
  /\ runs = 1
  /\ first_run' = [variables |-> variables,
                   assigned |-> assigned,
                   failed_assignments |-> failed_assignments,
                   hashseed |-> hashseed]
  /\ runs' = 2
  /\ hashseed' \in {"fwd", "rev"}
  /\ timeslots' = <<>>
  /\ timeslot_info' = <<>>
  /\ overlap_map' = <<>>
  /\ sessions' = <<>>
  /\ variables' = <<>>
  /\ domains' = <<>>
  /\ sorted_vars' = <<>>
  /\ assigned' = <<>>
  /\ failed_assignments' = <<>>
  /\ used_room_ts' = <<>>
  /\ used_instr_ts' = <<>>
  /\ used_section_ts' = <<>>
  /\ order' = <<>>
  /\ pc' = "timeslots"
  /\ i' = 1
  /\ UNCHANGED inputs

-----------------------------------------------------------------------------
(* Initial states                                                          *)

\* the state main() starts from, whatever the tables hold
Started ==
  /\ timeslots = <<>>
  /\ timeslot_info = <<>>
  /\ overlap_map = <<>>
  /\ sessions = <<>>
  /\ variables = <<>>
  /\ domains = <<>>
  /\ sorted_vars = <<>>
  /\ assigned = <<>>
  /\ failed_assignments = <<>>
  /\ used_room_ts = <<>>
  /\ used_instr_ts = <<>>
  /\ used_section_ts = <<>>
  /\ order = <<>>
  /\ first_run = [variables |-> <<>>, assigned |-> <<>>,
                  failed_assignments |-> <<>>,
                  hashseed |-> "none"]
  /\ runs = 1
  /\ pc = "timeslots"
  /\ i = 1

SlotRow(tid, day, start, end, dur, stype) ==
  [tid |-> tid, day |-> day, start |-> start, end |-> end, Duration |-> dur,
   slot_type |-> stype]

LectureRow(section, course, stype) ==
  [section |-> section, course |-> course, session_type |-> stype]

\* timeslot rows of the overlap specification: repeated ids, days that
\* differ in case or are blank, ranges that meet, intersect or lack an end
OverlapSlotRows ==
  {SlotRow(t, d, p[1], p[2], dur, "") :
     t \in {"T1", "T2"}, d \in {"", "Mon", "mon", "Tue"},
     p \in {<<480, 540>>, <<510, 570>>, <<540, 0>>}, dur \in {0, 60}}
  \cup {SlotRow("", "Mon", 480, 540, 60, "")}

InitOverlap ==
  /\ Started
  /\ hashseed = "fwd"
  /\ ALLOW_FALLBACK = TRUE
  /\ courses = {}
  /\ instructors = <<>>
  /\ rooms = <<>>
  /\ section_students = <<>>
  /\ has_duration_col \in BOOLEAN
  /\ timeslots_df \in SeqsUpTo(OverlapSlotRows, MaxSlotRows)
  /\ lecturemap_df = <<>>

NextOverlap == ReadTimeslotRow \/ InitOverlapMap \/ OverlapOuter

SpecOverlap == InitOverlap /\ [][NextOverlap]_vars

\* timeslot rows of the solver specifications: T1 and T2 overlap on Monday
\* (their day labels differ in case), T3 is a short slot on Tuesday
SolveSlotRows ==
  {SlotRow("T1", "Mon", 480, 570, 0, ""),
   SlotRow("T2", "mon", 540, 630, 0, ""),
   SlotRow("T3", "Tue", 480, 530, 0, "short")}

\* LectureMapping rows of the solver specifications: two sections of
\* different size, a section without students, a course that Courses lacks
\* and a row with a blank cell
SolveLectureRows ==
  {LectureRow(sec, "C1", st) :
     sec \in {"S1", "S2"}, st \in {"Lecture", "Short Tutorial"}}
  \cup {LectureRow("S0", "C1", "Lecture"), LectureRow("S1", "CX", "Lecture"),
        LectureRow("", "C1", "Lecture")}

Init ==
  /\ Started
  /\ hashseed \in {"fwd", "rev"}
  /\ ALLOW_FALLBACK = TRUE
  /\ courses = {"C1"}
  /\ instructors = <<[id |-> "I1", role |-> "professor", quals |-> {"C1"}],
                     [id |-> "I2", role |-> "ta", quals |-> {"C1"}]>>
  /\ rooms = <<[id |-> "R1", type |-> "classroom", capacity |-> 30],
               [id |-> "R2", type |-> "lab", capacity |-> 25]>>
  /\ section_students = ("S1" :> 30) @@ ("S2" :> 20) @@ ("S0" :> 0)
  /\ has_duration_col = FALSE
  /\ timeslots_df \in SeqsUpTo(SolveSlotRows, MaxSolveSlots)
  /\ lecturemap_df \in SeqsUpTo(SolveLectureRows, MaxSessions)

Next ==
  \/ ReadTimeslotRow
  \/ InitOverlapMap
  \/ OverlapOuter
  \/ ReadLectureRow
  \/ EndPreprocess
  \/ BuildSession
  \/ MainNoVariables
  \/ BeginSolve
  \/ SolveNoDomain
  \/ SolveAssign
  \/ SolveAllClashed

Spec == Init /\ [][Next]_vars

\* LectureMapping rows of the two-run specification
TwiceLectureRows ==
  {LectureRow(sec, "C1", st) :
     sec \in {"S1", "S2"}, st \in {"Lecture", "Short Tutorial"}}
  \cup {LectureRow("S0", "C1", "Lecture")}

\* as Init; the first process iterates sets forwards, the second either way
InitTwice ==
  /\ Started
  /\ hashseed = "fwd"
  /\ ALLOW_FALLBACK = TRUE
  /\ courses = {"C1"}
  /\ instructors = <<[id |-> "I1", role |-> "professor", quals |-> {"C1"}],
                     [id |-> "I2", role |-> "ta", quals |-> {"C1"}]>>
  /\ rooms = <<[id |-> "R1", type |-> "classroom", capacity |-> 30],
               [id |-> "R2", type |-> "lab", capacity |-> 25]>>
  /\ section_students = ("S1" :> 30) @@ ("S2" :> 20) @@ ("S0" :> 0)
  /\ has_duration_col = FALSE
  /\ timeslots_df \in SeqsUpTo(SolveSlotRows, MaxSolveSlots)
  /\ lecturemap_df \in SeqsUpTo(TwiceLectureRows, MaxSessions)

NextTwice == Next \/ RunAgain

\* the program run twice on the same tables
SpecTwice == InitTwice /\ [][NextTwice]_vars

\* timeslot rows of the domain specification: every tag with a duration on
\* either side of the two thresholds
DomainSlotRows ==
  {SlotRow("T1", "Mon", 480, e, 0, st) :
     e \in {559, 560}, st \in {"", "short", "Long"}}

\* rooms of the domain specification (types as preprocess lower-cases
\* them): a teaching room, a laboratory and a room of no recognised type,
\* one seat short of the section or just enough
DomainRoomRows ==
  {[type |-> ty, capacity |-> c] :
     ty \in {"classroom", "physics lab", "office"}, c \in {24, 25}}

\* the rooms dict built from a list of rows, with ids R1, R2, ...
RoomsOf(rows) ==
  [k \in DOMAIN rows |->
     [id |-> "R" \o ToString(k), type |-> rows[k].type,
      capacity |-> rows[k].capacity]]

\* one session of any type, of a course with (C1) or without (C2) a
\* qualified instructor
DomainLectureRows ==
  {LectureRow("S1", c, st) :
     c \in {"C1", "C2"},
     st \in {"Lecture", "Lab", "Short Tutorial", "Long Tutorial", "Tutorial",
             "Seminar"}}

InitDomain ==
  /\ Started
  /\ hashseed = "fwd"
  /\ ALLOW_FALLBACK \in BOOLEAN
  /\ courses = {"C1", "C2"}
  /\ instructors = <<[id |-> "I1", role |-> "professor", quals |-> {"C1"}],
                     [id |-> "I2", role |-> "teaching assistant",
                      quals |-> {}]>>
  /\ \E rows \in SeqsUpTo(DomainRoomRows, MaxDomRooms) : rooms = RoomsOf(rows)
  /\ section_students = ("S1" :> 25)
  /\ has_duration_col = FALSE
  /\ timeslots_df \in SeqsUpTo(DomainSlotRows, MaxDomSlots)
  /\ lecturemap_df \in [1..1 -> DomainLectureRows]

NextDomain ==
  \/ ReadTimeslotRow
  \/ InitOverlapMap
  \/ OverlapOuter
  \/ ReadLectureRow
  \/ EndPreprocess
  \/ BuildSession
  \/ BeginSolve
  \/ SolveNoDomain
  \/ SolveAssign

\* one session, through the domain builder and the solver
SpecDomain == InitDomain /\ [][NextDomain]_vars

-----------------------------------------------------------------------------
(* Properties of the overlap map                                           *)

\* preprocess has built the whole overlap map
OverlapBuilt == pc \notin {"timeslots", "overlap"}

\* C2: the overlap map built by preprocess is symmetric and irreflexive: for
\* all timeslot ids a and b, a is in overlap(b) exactly when b is in
\* overlap(a), and no id is a member of its own overlap set, also when the
\* timeslot table repeats an id.
OverlapSymmetricIrreflexive ==
  OverlapBuilt =>
    \A a \in DOMAIN overlap_map :
       /\ a \notin overlap_map[a]
       /\ \A b \in DOMAIN overlap_map :
             a \in overlap_map[b] <=> b \in overlap_map[a]

\* the symmetric half of C2, which the code does keep
OverlapSymmetric ==
  \A a \in DOMAIN overlap_map : \A b \in DOMAIN overlap_map :
     a \in overlap_map[b] <=> b \in overlap_map[a]

\* same day label, compared case-insensitively
SameDay(a, b) == Lower(timeslot_info[a].day) = Lower(timeslot_info[b].day)

\* the half-open ranges [start, end) intersect, as section 4.1 writes it:
\* a.start < b.end && b.start < a.end
RangesIntersect(a, b) ==
  /\ timeslot_info[a].start_min < timeslot_info[b].end_min
  /\ timeslot_info[b].start_min < timeslot_info[a].end_min

\* C3: the overlap map is exact: for every two distinct timeslots a and b,
\* b is in overlap(a) if and only if a and b have the same day label
\* (case-insensitively) and their minute ranges intersect; no pair of
\* same-day slots with intersecting ranges is missing from the map.
OverlapExact ==
  OverlapBuilt =>
    \A a \in DOMAIN overlap_map : \A b \in (DOMAIN overlap_map) \ {a} :
       b \in overlap_map[a] <=> (SameDay(a, b) /\ RangesIntersect(a, b))

\* what the code does keep of C3: exactness for slots whose day is not blank
OverlapExactLabelled ==
  OverlapBuilt =>
    \A a \in DOMAIN overlap_map : \A b \in (DOMAIN overlap_map) \ {a} :
       b \in overlap_map[a] <=>
         /\ timeslot_info[a].day # "" /\ timeslot_info[b].day # ""
         /\ SameDay(a, b) /\ RangesIntersect(a, b)

-----------------------------------------------------------------------------
(* Properties of the assignment engine                                     *)

\* two timeslots are equal or related by the overlap map
SlotsClash(t, u) == t = u \/ u \in OverlapGet(t) \/ t \in OverlapGet(u)

\* two committed sessions use the same room, instructor or section
ShareResource(v, w) ==
  \/ assigned[v][2] = assigned[w][2]
  \/ assigned[v][3] = assigned[w][3]
  \/ variables[v].section = variables[w].section

\* C1: after any prefix of the pass, any two distinct committed assignments
\* that share a room, an instructor or a section have timeslots that are
\* neither equal nor related by the overlap map.
NoClash ==
  \A v \in DOMAIN assigned : \A w \in (DOMAIN assigned) \ {v} :
     ShareResource(v, w) => ~SlotsClash(assigned[v][1], assigned[w][1])

\* two sessions that share a resource are both committed
NoClashWitness ==
  \E v \in DOMAIN assigned : \E w \in (DOMAIN assigned) \ {v} :
     ShareResource(v, w)

\* the sessions that pass the data-integrity tests
ValidSession(s) == s.students > 0 /\ s.course \in courses

\* a session became a variable without change
SameSession(var, s) ==
  /\ var.course = s.course
  /\ var.section = s.section
  /\ var.session_type = s.session_type
  /\ var.students = s.students

\* the number of entries of the list s that equal x
Count(s, x) == Cardinality({k \in DOMAIN s : s[k] = x})

\* C6: a session with student count <= 0 or a course absent from the
\* courses is dropped before domain construction (no variable, no domain),
\* and is in neither the assignments nor the failures; every other session
\* is, at the end of the run, in exactly one of the two.
DataIntegrityDrop ==
  pc = "done" =>
    LET kept == SelectSeq(sessions, ValidSession)
    IN /\ Len(variables) = Len(kept)
       /\ \A k \in DOMAIN variables : SameSession(variables[k], kept[k])
       /\ DOMAIN domains = DOMAIN variables
       /\ (DOMAIN assigned) \cup Range(failed_assignments)
             \subseteq DOMAIN variables
       /\ \A k \in DOMAIN variables :
             /\ (k \in DOMAIN assigned) # (k \in Range(failed_assignments))
             /\ Count(failed_assignments, k) <= 1

\* a run ends with a session dropped and another committed
DataIntegrityDropWitness ==
  /\ pc = "done"
  /\ \E k \in DOMAIN sessions : ~ValidSession(sessions[k])
  /\ assigned # <<>>

Triple(var) == <<var.course, var.section, var.session_type>>

\* C8: no two sessions handed to the domain builder and the assignment
\* engine share a (course, section, session-type) triple, so a run ends with
\* at most one outcome per triple, also when LectureMapping repeats a row.
SessionIdentityUnique ==
  pc = "done" =>
    \A v \in DOMAIN variables : \A w \in (DOMAIN variables) \ {v} :
       Triple(variables[v]) # Triple(variables[w])

\* the candidates of v are sorted by key, equal keys in domain order: the
\* candidate at position p of the domain lands after exactly those at the
\* positions q of smaller key, or of equal key and q < p
CandidateTiesInInputOrder(v) ==
  LET dom == DomainOf(v)
      sd == SortedDomain(v)
      Before(q, p) ==
        \/ KeyLess(OptionKey(dom[q], v), OptionKey(dom[p], v))
        \/ (OptionKey(dom[q], v) = OptionKey(dom[p], v) /\ q < p)
  IN /\ Len(sd) = Len(dom)
     /\ \A p \in DOMAIN dom :
           sd[1 + Cardinality({q \in DOMAIN dom : Before(q, p)})] = dom[p]

ProcessingOrder ==
  /\ \A p \in DOMAIN order : \A q \in DOMAIN order :
        p < q =>
          LET a == order[p]
              b == order[q]
          IN /\ variables[a].students >= variables[b].students
             /\ variables[a].students = variables[b].students =>
                  Len(DomainOf(a)) <= Len(DomainOf(b))
             /\ (/\ variables[a].students = variables[b].students
                 /\ Len(DomainOf(a)) = Len(DomainOf(b))) => a < b
  /\ (pc = "done" /\ variables # <<>>) =>
        /\ Len(order) = Len(variables)
        /\ Range(order) = DOMAIN variables

\* the run has processed the second session of the input before the first,
\* the two having the same student count, and the pass is over
ProcessingOrderWitness ==
  /\ pc = "done"
  /\ Len(order) >= 2
  /\ order[1] > order[2]
  /\ variables[order[1]].students = variables[order[2]].students

-----------------------------------------------------------------------------
(* Properties of the domain builder                                        *)

\* the record of room r_id
RoomOf(r_id) == rooms[CHOOSE k \in DOMAIN rooms : rooms[k].id = r_id]

\* the instructors qualified for course cid
QualifiedFor(cid) ==
  {instructors[k].id : k \in {j \in DOMAIN instructors :
                                 cid \in instructors[j].quals}}

\* room types section 4.2 recognises, lab-type or teaching
KnownRoomTypes == {"classroom", "hall", "theater", "lab", "physics lab"}

\* hard filter 2: the room is of a type compatible with the session
RoomTypeAllowed(room, var) == Lower(room.type) \in KnownRoomTypes

\* hard filter 3: strict capacity
CapacityAllowed(room, var) == room.capacity >= var.students

\* hard filter 4: the slot rule by session type
SlotAllowed(t, var) ==
  LET info == timeslot_info[t]
      st == Lower(var.session_type)
  IN /\ st = "short tutorial" => (info.slot_type = "short" \/ info.duration <= 79)
     /\ st = "long tutorial" => (info.slot_type = "long" \/ info.duration >= 80)

\* hard filter 1: qualification, or fallback when nobody is qualified
InstructorAllowed(iid, var) ==
  \/ iid \in QualifiedFor(var.course)
  \/ (QualifiedFor(var.course) = {} /\ ALLOW_FALLBACK)

\* candidate c of session var passes the four hard filters
CandidateSound(c, var) ==
  /\ c[1] \in DOMAIN timeslot_info
  /\ \E k \in DOMAIN rooms : rooms[k].id = c[2]
  /\ \E k \in DOMAIN instructors : instructors[k].id = c[3]
  /\ InstructorAllowed(c[3], var)
  /\ RoomTypeAllowed(RoomOf(c[2]), var)
  /\ CapacityAllowed(RoomOf(c[2]), var)
  /\ SlotAllowed(c[1], var)

\* C4: every candidate of every domain passes the four hard filters at
\* once (qualification or fallback, room type, capacity >= students, slot
\* rule of the session type), and so does every committed assignment.
DomainSound ==
  /\ \A v \in DOMAIN domains : \A k \in DOMAIN domains[v] :
        CandidateSound(domains[v][k], variables[v])
  /\ \A v \in DOMAIN assigned : CandidateSound(assigned[v], variables[v])

\* a short tutorial is committed to an untagged slot, which the duration
\* rule let through
DomainSoundWitness ==
  \E v \in DOMAIN assigned :
     /\ variables[v].session_type = "Short Tutorial"
     /\ timeslot_info[assigned[v][1]].slot_type = ""

\* the candidates of the list dom, as a set
Candidates(dom) == {dom[k] : k \in DOMAIN dom}

-----------------------------------------------------------------------------
(* Properties of one step of the assignment engine                         *)

\* the slots already recorded for the candidate's room, for its instructor
\* and for the session's section
RecordedSlots(c, section) ==
  Get(used_room_ts, c[2]) \cup Get(used_instr_ts, c[3])
    \cup Get(used_section_ts, section)

\* section 4.3: the candidate's slot neither equals nor overlaps, by the
\* overlap map, any slot recorded for one of its three resources
FeasibleCandidate(c, section) ==
  \A u \in RecordedSlots(c, section) : ~SlotsClash(c[1], u)

\* |room capacity - students| of a candidate
CapacityGap(c, var) == Abs(RoomOf(c[2]).capacity - var.students)

\* d comes strictly before c in the order of the commit rule: preferred
\* candidates first, then the smallest capacity gap
RanksStrictlyEarlier(d, c, var) ==
  \/ d[5] /\ ~c[5]
  \/ d[5] = c[5] /\ CapacityGap(d, var) < CapacityGap(c, var)

\* two usage indices record the same slots for every resource
SameRecord(d, e) ==
  \A k \in (DOMAIN d) \cup (DOMAIN e) : Get(d, k) = Get(e, k)

\* C11: each step that processes a session either commits it or fails it.
\* If some candidate of its domain is feasible (its slot neither equals nor
\* overlaps a slot recorded for its room, its instructor or the section),
\* the session is committed to a feasible candidate that no feasible
\* candidate ranks strictly before (preferred first, then smallest
\* |capacity - students|), the three usage indices record the committed
\* slot, and the session does not fail. Otherwise (no feasible candidate,
\* or an empty domain) the session joins the failures, the assignments and
\* the slots recorded by the usage indices stay as they were, and the pass
\* goes on with the next session.
CommitFailureRule ==
  [][(pc = "solve" /\ i <= Len(sorted_vars)) =>
       LET v == sorted_vars[i]
           var == variables[v]
           feasible == {c \in Candidates(DomainOf(v)) :
                          FeasibleCandidate(c, var.section)}
       IN IF feasible # {}
          THEN /\ v \in DOMAIN assigned'
               /\ assigned'[v] \in feasible
               /\ \A d \in feasible :
                     ~RanksStrictlyEarlier(d, assigned'[v], var)
               /\ \A w \in DOMAIN assigned :
                     w \in DOMAIN assigned' /\ assigned'[w] = assigned[w]
               /\ assigned'[v][1] \in Get(used_room_ts', assigned'[v][2])
               /\ assigned'[v][1] \in Get(used_instr_ts', assigned'[v][3])
               /\ assigned'[v][1] \in Get(used_section_ts', var.section)
               /\ failed_assignments' = failed_assignments
          ELSE /\ failed_assignments' = Append(failed_assignments, v)
               /\ assigned' = assigned
               /\ SameRecord(used_room_ts', used_room_ts)
               /\ SameRecord(used_instr_ts', used_instr_ts)
               /\ SameRecord(used_section_ts', used_section_ts)
               /\ i' = i + 1
               /\ i < Len(sorted_vars) => pc' = "solve"]_vars

\* a session is committed to a candidate that is not preferred although its
\* domain holds preferred ones, which clashed with an earlier commitment
CommitFailureRuleWitness ==
  \E v \in DOMAIN assigned :
     /\ Len(order) >= 2
     /\ order[Len(order)] = v
     /\ \E d \in Candidates(DomainOf(v)) :
           RanksStrictlyEarlier(d, assigned[v], variables[v])

\* a session with candidates failed because each clashes with a slot that
\* an earlier commitment recorded
AllClashedFailureReached ==
  \E k \in DOMAIN failed_assignments :
     /\ DomainOf(failed_assignments[k]) # <<>>
     /\ assigned # <<>>

====
